---- MODULE Spec2Model ----
(***************************************************************************)
(* Market-data acquisition layer of the coincap dashboard                  *)
(* (src/src/services/api.ts): the rate-limited, cached, paginated listing  *)
(* fetcher fetchTopCryptocurrencies, run by several overlapping callers on *)
(* one event loop.  A step of the model is one run-to-completion slice of  *)
(* a call: from its invocation, or from the resolution of the promise it   *)
(* awaits, up to its next await or its return.                             *)
(*                                                                         *)
(* Times are in seconds; the source writes them in milliseconds and every  *)
(* interval it uses is a whole number of seconds.  The code only ever      *)
(* subtracts a stored timestamp from Date.now(), so the model keeps each   *)
(* timestamp as its age (Date.now() - timestamp) and each setTimeout as    *)
(* the time left until it fires; Tick advances all of them together.       *)
(*                                                                         *)
(* The second part models searchCryptocurrencies of the same file.  A      *)
(* string is the sequence of its characters.                               *)
(***************************************************************************)
EXTENDS Integers, Sequences, FiniteSets, TLC

(* ------------------------------ bounds -------------------------------- *)
MaxInvocations == 3     \* total calls of fetchTopCryptocurrencies
MaxLimit == 3           \* largest `limit` argument
UpstreamTotal == 3      \* number of coins the upstream lists
maxPerPage == 2         \* api.ts:49 sets 100; scaled so that MaxLimit spans pages
LimitsBelowOne == 2     \* the `limit` arguments below 1 that are tried: 0, -1
MaxSearches == 2        \* total calls of searchCryptocurrencies
MaxResults == 2         \* api.ts:304, 402 cut at 20; scaled to the listing
MaxRemoteHits == 2      \* api.ts:358 cuts at 10; scaled to the listing
MaxFavCalls == 3        \* calls of fetchMissingFavorites in a behaviour
idsPerBatch == 2        \* api.ts:200  50 in the code, scaled down
MaxInputs == 4          \* changes of the search field in a behaviour
MaxStorageOps == 3      \* calls of init, saveFavorites and loadFavorites

(* ------------------------- program constants -------------------------- *)
API_RATE_LIMIT == 6            \* api.ts:9    6000 ms
MAIN_CACHE_DURATION == 120     \* api.ts:13   120000 ms
maxRetries == 3                \* api.ts:45
PageDelay == 1                 \* api.ts:83   1000 ms between pages
RateLimitDelay == 10           \* api.ts:114  attempt * 10000 ms after a 429
GenericDelay == 3              \* api.ts:118  attempt * 3000 ms after another error
CACHE_DURATION == 600          \* api.ts:11   600000 ms
MinQueryLength == 2            \* api.ts:260
MinApiQueryLength == 3         \* api.ts:325
MarketDelay == 1               \* api.ts:362  1000 ms before the market request
DebounceDelay == 800           \* App.tsx:609  milliseconds

AgeCap == API_RATE_LIMIT       \* ages of the last call are kept up to here: the
                               \* code compares them with API_RATE_LIMIT only
Callers == {1, 2}       \* overlapping callers (App mount effect, refresh, ...)
Limits == 1..MaxLimit
AnyLimits == (1 - LimitsBelowOne)..MaxLimit   \* `limit: number` admits every number

VARIABLES
    lastApiCallAge,   \* Date.now() - lastApiCallTime (api.ts:8), up to AgeCap
    mainDataCache,    \* api.ts:12  [has, data, age]; has = (data !== null),
                      \* age = Date.now() - timestamp, up to MAIN_CACHE_DURATION
    loadedCryptos,    \* api.ts:16
    calls,            \* per caller: the frame of its running call (see Idle)
    ret,              \* what the step just taken handed to its caller (see NoReturn)
    invocations,      \* number of invocations so far
    started,          \* the callers whose call is past api.ts:44, in the order
                      \* their fetches began
    superseded,       \* the callers whose fetch began before a fetch whose
                      \* snapshot has landed in the cache since
    searchCache,      \* api.ts:10  per key [has, data, age]
    searches,         \* per searcher: the frame of its running search (see NoSearch)
    sret,             \* what the search step just taken returned (see NoFound)
    searchCount,      \* number of searches so far
    favCalls,         \* per caller: the frame of its running fetchMissingFavorites
                      \* (see NoFavCall)
    fret,             \* what the fetchMissingFavorites step just taken returned
                      \* (see NoMissing)
    favCount,         \* number of fetchMissingFavorites calls so far
    searchQuery,      \* App.tsx:42  searchQuery state: the text of the input
    isSearching,      \* App.tsx:44  isSearching state
    searchResults,    \* App.tsx:43  searchResults state
    debounceTimer,    \* App.tsx:18  the timeout set last (see NoTimer)
    submitted,        \* the query performSearch was called with last
    resultsFor,       \* the query whose response searchResults holds
    inputs,           \* number of input changes so far
    initialized,      \* storage.ts:238  FavoritesStorage.initialized
    memory,           \* storage.ts:117  MemoryStorage.favorites, in insertion order
    indexedDB,        \* storage.ts:14   [db, record]: db = (this.db !== null),
                      \* record = the 'user-favorites' record of the object store
    traditional,      \* storage.ts:153-177  the items of localStorage and
                      \* sessionStorage under the new and the old key
    cloud,            \* cloudStorage.ts:151  [binId, storedBinId, bin]
    platformInfo,     \* storage.ts:239  which loader order loadFavorites takes
    lastSaved,        \* the list saveFavorites was called with last
    lret,             \* what the loadFavorites step just taken returned
    storageOps        \* number of saveFavorites and loadFavorites calls so far

searchVars == <<searchCache, searches, sret, searchCount>>
favVars == <<favCalls, fret, favCount>>
uiVars == <<searchQuery, isSearching, searchResults, debounceTimer, submitted,
            resultsFor, inputs>>
stVars == <<initialized, memory, indexedDB, traditional, cloud, platformInfo,
            lastSaved, lret, storageOps>>
restVars == <<searchVars, favVars, uiVars, stVars>>

vars == <<lastApiCallAge, mainDataCache, loadedCryptos, calls, ret,
          invocations, started, superseded, searchCache, searches, sret,
          searchCount, favVars, uiVars, stVars>>

Min(a, b) == IF a < b THEN a ELSE b
Max(a, b) == IF a > b THEN a ELSE b

(* Math.ceil(a / b) for b > 0 (\div rounds down, also below zero) *)
Ceil(a, b) == (a + b - 1) \div b

(* Faulty variant of Slice: the whole array is handed out *)
SliceWhole(s, n) == s

(* Faulty variant of Slice: a short sequence is filled up to n records by   *)
(* starting over                                                           *)
SliceFilled(s, n) ==
    [i \in 1..(IF s = <<>> THEN 0 ELSE Max(n, 0)) |-> s[((i - 1) % Len(s)) + 1]]

(* Array.prototype.slice(0, n): a negative n counts from the end *)
Slice(s, n) == SubSeq(s, 1, IF n < 0 THEN Max(Len(s) + n, 0) ELSE Min(n, Len(s)))

(* the sequence without c; the members listed before c *)
Without(s, c) == SelectSeq(s, LAMBDA x : x # c)
Before(s, c) == {s[i] : i \in {j \in 1..Len(s) : \E k \in 1..Len(s) : s[k] = c /\ j < k}}

(* The frame of a call of fetchTopCryptocurrencies:                        *)
(*   pc          the await the call is suspended at: "rateWait" (api.ts:41)*)
(*               "req" (:62), "pageDelay" (:83), "delay429" (:116),        *)
(*               "delayError" (:120)                                       *)
(*   limit       the argument                                              *)
(*   attempt     loop variable of api.ts:52                                *)
(*   page        loop variable of api.ts:59                                *)
(*   allCryptos  api.ts:56                                                 *)
(*   wait        time left until the setTimeout the call awaits fires      *)
(* A caller with no running call has the frame Idle.                       *)
Idle == [pc |-> "idle", limit |-> 0, attempt |-> 0, page |-> 0, allCryptos |-> <<>>,
         wait |-> 0]

(* ret.kind names the return statement taken: "cacheHit" (api.ts:29),      *)
(* "rateLimited" (:37), "fetched" (:107), "fallback" (:129), "error" (the  *)
(* throw of :133); "none" when the step returned nothing.                  *)
NoReturn == [kind |-> "none", data |-> <<>>, limit |-> 0]

(* ------------------------------ upstream ------------------------------ *)
(* GET /coins/markets?per_page=perPage&page=p : the coins at offsets       *)
(* (p-1)*perPage+1 .. p*perPage of the market-cap ordering, as far as the  *)
(* listing goes.                                                           *)
UpstreamPage(p, perPage) ==
    LET off == (p - 1) * perPage
        n   == Max(0, Min(perPage, UpstreamTotal - off))
    IN  [k \in 1..n |-> [id |-> off + k]]

(* Faulty variant of MapCryptos: the rank restarts on every page *)
MapCryptosRankInPage(all) ==
    [i \in 1..Len(all) |-> [id |-> all[i].id, rank |-> ((i - 1) % maxPerPage) + 1]]

(* api.ts:88-99  map((coin, index) => ({..., rank: String(index + 1)})); the *)
(* rank is kept as the number that String() writes out                      *)
MapCryptos(all) ==
    [i \in 1..Len(all) |-> [id |-> all[i].id, rank |-> i]]

(* api.ts:50 *)
pagesNeeded(lim) == Ceil(lim, maxPerPage)

(* api.ts:60 *)
itemsThisPage(lim, all) == Min(maxPerPage, lim - Len(all))

(* ------------------------------- strings ------------------------------ *)
LowerChar(ch) == CASE ch = "A" -> "a" [] ch = "B" -> "b" [] OTHER -> ch
UpperChar(ch) == CASE ch = "a" -> "A" [] ch = "b" -> "B" [] OTHER -> ch

(* String.prototype.toLowerCase, toUpperCase *)
toLowerCase(str) == [i \in 1..Len(str) |-> LowerChar(str[i])]
toUpperCase(str) == [i \in 1..Len(str) |-> UpperChar(str[i])]

(* String.prototype.trim: leading and trailing white space is dropped *)
trim(str) ==
    LET inked == {i \in 1..Len(str) : str[i] # " "}
    IN  IF inked = {} THEN <<>>
        ELSE SubSeq(str, CHOOSE i \in inked : \A j \in inked : i <= j,
                         CHOOSE i \in inked : \A j \in inked : i >= j)

(* String.prototype.startsWith, includes *)
startsWith(str, q) == Len(q) <= Len(str) /\ SubSeq(str, 1, Len(q)) = q
includes(str, q) ==
    \E i \in 0..(Len(str) - Len(q)) : SubSeq(str, i + 1, i + Len(q)) = q

(* The raw queries a user types: "", " ", "   ", "b", " a", "ab", "aba",    *)
(* "ABA", " aba", "aba ", "bbb"                                             *)
Queries ==
    { <<>>, <<" ">>, <<" ", " ", " ">>, <<"b">>, <<" ", "a">>, <<"a", "b">>,
      <<"a", "b", "a">>, <<"A", "B", "A">>, <<" ", "a", "b", "a">>,
      <<"a", "b", "a", " ">>, <<"b", "b", "b">> }

(* Faulty variant of cacheKey: the query as typed, lowercased *)
cacheKeyUntrimmed(query) == toLowerCase(query)

(* api.ts:252 *)
cacheKey(query) == trim(toLowerCase(query))

(* the strings searchCache is looked up with, and those a query lowercases to *)
Keys == {trim(toLowerCase(q)) : q \in Queries} \cup {toLowerCase(q) : q \in Queries}

(* ----------------------- the upstream's coin data --------------------- *)
(* The coins of the upstream, numbered by market-cap rank: coin k is at     *)
(* offset k of the listing.  Name/symbol: "B aba"/b, "Ab aba"/bb, "Ba"/aba, *)
(* then "Bb"/ab.                                                            *)
UpstreamName(id) ==
    CASE id = 1 -> <<"B", " ", "a", "b", "a">>
      [] id = 2 -> <<"A", "b", " ", "a", "b", "a">>
      [] id = 3 -> <<"B", "a">>
      [] OTHER  -> <<"B", "b">>

UpstreamSymbol(id) ==
    CASE id = 1 -> <<"b">>
      [] id = 2 -> <<"b", "b">>
      [] id = 3 -> <<"a", "b", "a">>
      [] OTHER  -> <<"a", "b">>

UpstreamMarketCap(id) == UpstreamTotal + 1 - id

(* The fields a CryptoCurrency record carries besides id and rank, as the   *)
(* mappings of api.ts:88-99 and 377-388 copy them from the upstream's coin: *)
(* name, symbol: coin.symbol.toUpperCase(), parseFloat(marketCapUsd)        *)
name(crypto) == UpstreamName(crypto.id)
symbol(crypto) == toUpperCase(UpstreamSymbol(crypto.id))
marketCap(crypto) == UpstreamMarketCap(crypto.id)

(* The frame of a call of searchCryptocurrencies:                          *)
(*   pc            the await the call is suspended at: "search" (api.ts:343)*)
(*                 "marketDelay" (:362), "markets" (:364)                  *)
(*   query         the argument                                            *)
(*   localResults  api.ts:299                                              *)
(*   coinIds       api.ts:358                                              *)
(*   wait          time left until the setTimeout the call awaits fires    *)
NoSearch == [pc |-> "idle", query |-> <<>>, localResults |-> <<>>, coinIds |-> <<>>,
             wait |-> 0]

(* sret.kind names the return statement taken: "cached" (api.ts:256),      *)
(* "tooShort" (:261), "local" (:312), "noData" (:318), "shortForApi"       *)
(* (:327), "rateLimited" (:335), "noHits" (:354), "combined" (:408),       *)
(* "apiError" (:415); "none" when the step returned nothing.               *)
NoFound == [kind |-> "none", data |-> <<>>, query |-> <<>>]

NoEntry == [has |-> FALSE, data |-> <<>>, age |-> 0]

Searchers == {1, 2}        \* searches running at a time

(* The frame of a call of fetchMissingFavorites:                           *)
(*   pc           "req" while the call awaits its request (api.ts:202)     *)
(*   favoriteIds  api.ts:177                                               *)
(*   idsToFetch   api.ts:200                                               *)
NoFavCall == [pc |-> "idle", favoriteIds |-> <<>>, idsToFetch |-> <<>>]

(* fret.kind names the return statement taken: "noneMissing" (api.ts:185), *)
(* "rateLimited" (:194), "fetched" (:229), "failed" (:240); "none" when    *)
(* the step returned nothing.                                              *)
NoMissing == [kind |-> "none", data |-> <<>>, favoriteIds |-> <<>>]

FavCallers == {1, 2}       \* calls of fetchMissingFavorites running at a time

(* no call of fetchMissingFavorites has been made *)
FavIdle ==
    /\ favCalls = [y \in FavCallers |-> NoFavCall]
    /\ fret = NoMissing
    /\ favCount = 0

(* App.tsx:18-29  a timeout: whether it is pending, the query its callback *)
(* passes on, the milliseconds left until it fires                         *)
NoTimer == [pending |-> FALSE, query |-> <<>>, left |-> 0]

(* App.tsx:42-44  the search field after the component mounted *)
UIIdle ==
    /\ searchQuery = <<>>
    /\ isSearching = FALSE
    /\ searchResults = <<>>
    /\ debounceTimer = NoTimer
    /\ submitted = <<>>
    /\ resultsFor = <<>>
    /\ inputs = 0

(* a stored item: whether it exists, and the favorites array it holds *)
NoItem == [has |-> FALSE, favorites |-> <<>>]

(* lret.kind: "loaded" when loadFavorites returned, "none" otherwise *)
NoLoaded == [kind |-> "none", data |-> <<>>]

(* storage.ts:233-239  a FavoritesStorage on a device that has stored      *)
(* nothing yet                                                             *)
StorageIdle ==
    /\ initialized = FALSE
    /\ memory = <<>>
    /\ indexedDB = [db |-> FALSE, record |-> NoItem]
    /\ traditional = [local |-> NoItem, session |-> NoItem,
                      oldLocal |-> NoItem, oldSession |-> NoItem]
    /\ cloud = [binId |-> FALSE, storedBinId |-> FALSE, bin |-> NoItem]
    /\ platformInfo = "other"
    /\ lastSaved = NoItem
    /\ lret = NoLoaded
    /\ storageOps = 0

Init ==
    /\ FavIdle
    /\ UIIdle
    /\ StorageIdle
    /\ searchCache = [k \in Keys |-> NoEntry]
    /\ searches = [x \in Searchers |-> NoSearch]
    /\ sret = NoFound
    /\ searchCount = 0
    /\ lastApiCallAge = AgeCap      \* lastApiCallTime = 0: ages ago
    /\ mainDataCache = [has |-> FALSE, data |-> <<>>, age |-> 0]
    /\ loadedCryptos = <<>>
    /\ calls = [c \in Callers |-> Idle]
    /\ ret = NoReturn
    /\ invocations = 0
    /\ started = <<>>
    /\ superseded = {}

(* ----------------------- fetchTopCryptocurrencies --------------------- *)
InCall(c) == calls[c].pc # "idle"

(* api.ts:26 *)
CacheFresh == mainDataCache.has /\ mainDataCache.age < MAIN_CACHE_DURATION

(* Faulty variant of RateLimited: the interval is never enforced *)
RateLimitedNever == FALSE

(* api.ts:33 *)
RateLimited == lastApiCallAge < API_RATE_LIMIT

(* Faulty variant of waitTime: the whole interval instead of its remainder *)
waitTimeWhole == API_RATE_LIMIT

(* api.ts:40 *)
waitTime == API_RATE_LIMIT - lastApiCallAge

(* Faulty variant of Delay429: the pause does not grow with the attempt *)
Delay429Flat(a) == RateLimitDelay

(* api.ts:114  the pause after a 429 on the given attempt *)
Delay429(a) == a * RateLimitDelay

(* api.ts:118  the pause after another error on the given attempt *)
DelayError(a) == a * GenericDelay

(* Faulty variant of PagesDone: the loop is taken to end with its first    *)
(* answered page                                                           *)
PagesDoneAfterFirst(f, got, items) == TRUE

(* api.ts:59, 77-79  the page loop ends with this response: the page came  *)
(* back short, or it was page pagesNeeded                                  *)
PagesDone(f, got, items) == got < items \/ ~(f.page < pagesNeeded(f.limit))

(* api.ts:52-62  an iteration of the retry loop starts: the page loop runs *)
(* from page 1 with an empty accumulator, and its request is issued        *)
BeginAttempt(f, a) ==
    [f EXCEPT !.pc = "req", !.attempt = a, !.page = 1, !.allCryptos = <<>>, !.wait = 0]

(* the call of caller c ends *)
Leave(c) ==
    /\ calls' = [calls EXCEPT ![c] = Idle]
    /\ started' = Without(started, c)

(* api.ts:44-107  the call, with frame f, passes the rate limit: it stamps  *)
(* the last call and enters the retry loop.  With pagesNeeded < 1 the page  *)
(* loop has no iteration: the empty result is cached and returned at once.  *)
StartFetch(c, f) ==
    /\ lastApiCallAge' = 0
    /\ IF pagesNeeded(f.limit) >= 1
       THEN /\ calls' = [calls EXCEPT ![c] = BeginAttempt(f, 1)]
            /\ started' = Append(started, c)
            /\ ret' = NoReturn
            /\ UNCHANGED <<mainDataCache, loadedCryptos, superseded>>
       ELSE /\ mainDataCache' = [has |-> TRUE, data |-> MapCryptos(<<>>), age |-> 0]
            /\ loadedCryptos' = MapCryptos(<<>>)
            /\ ret' = [kind |-> "fetched", data |-> MapCryptos(<<>>), limit |-> f.limit]
            /\ Leave(c)
            /\ superseded' = superseded \cup {started[i] : i \in 1..Len(started)}

(* Faulty variant of Exhausted: the call throws whatever the cache holds *)
ExhaustedThrows(c) ==
    /\ loadedCryptos' = loadedCryptos
    /\ ret' = [kind |-> "error", data |-> <<>>, limit |-> calls[c].limit]
    /\ calls' = [calls EXCEPT ![c] = Idle]
    /\ started' = SelectSeq(started, LAMBDA x : x # c)
    /\ superseded' = superseded \ {c}

(* api.ts:125-133  the retry loop is left without a return *)
Exhausted(c) ==
    /\ IF mainDataCache.has
       THEN /\ loadedCryptos' = mainDataCache.data
            /\ ret' = [kind |-> "fallback",
                       data |-> Slice(mainDataCache.data, calls[c].limit),
                       limit |-> calls[c].limit]
       ELSE /\ loadedCryptos' = loadedCryptos
            /\ ret' = [kind |-> "error", data |-> <<>>, limit |-> calls[c].limit]
    /\ Leave(c)
    /\ superseded' = superseded \ {c}

(* api.ts:23-62  the call up to its first await or return.  Callers are    *)
(* interchangeable: a new call takes the first caller that has none.       *)
Call(c, lim) ==
    /\ ~InCall(c)
    /\ \A d \in Callers : d < c => InCall(d)
    /\ invocations < MaxInvocations
    /\ invocations' = invocations + 1
    /\ UNCHANGED restVars
    /\ LET f == [Idle EXCEPT !.limit = lim]
       IN  IF CacheFresh
           THEN /\ loadedCryptos' = mainDataCache.data
                /\ ret' = [kind |-> "cacheHit", data |-> Slice(mainDataCache.data, lim),
                           limit |-> lim]
                /\ UNCHANGED <<calls, started, lastApiCallAge, mainDataCache,
                               superseded>>
           ELSE IF RateLimited
           THEN IF mainDataCache.has
                THEN /\ loadedCryptos' = mainDataCache.data
                     /\ ret' = [kind |-> "rateLimited",
                                data |-> Slice(mainDataCache.data, lim), limit |-> lim]
                     /\ UNCHANGED <<calls, started, lastApiCallAge, mainDataCache,
                                    superseded>>
                ELSE /\ calls' = [calls EXCEPT ![c] =
                            [f EXCEPT !.pc = "rateWait", !.wait = waitTime]]
                     /\ ret' = NoReturn
                     /\ UNCHANGED <<loadedCryptos, started, lastApiCallAge,
                                    mainDataCache, superseded>>
           ELSE StartFetch(c, f)

(* api.ts:41-62  the rate-limit wait is over *)
WakeRate(c) ==
    /\ calls[c].pc = "rateWait"
    /\ calls[c].wait = 0
    /\ StartFetch(c, calls[c])
    /\ UNCHANGED <<invocations, restVars>>

(* api.ts:74-107  the page request is answered with data *)
RespondOk(c) ==
    /\ calls[c].pc = "req"
    /\ LET f     == calls[c]
           items == itemsThisPage(f.limit, f.allCryptos)
           data  == UpstreamPage(f.page, items)
           all   == f.allCryptos \o data
       IN  IF PagesDone(f, Len(data), items)
           THEN /\ mainDataCache' = [has |-> TRUE, data |-> MapCryptos(all), age |-> 0]
                /\ loadedCryptos' = MapCryptos(all)
                /\ ret' = [kind |-> "fetched", data |-> MapCryptos(all),
                           limit |-> f.limit]
                /\ Leave(c)
                /\ superseded' = (superseded \cup Before(started, c)) \ {c}
           ELSE /\ calls' = [calls EXCEPT ![c] =
                       [f EXCEPT !.pc = "pageDelay", !.allCryptos = all, !.wait = PageDelay]]
                /\ ret' = NoReturn
                /\ UNCHANGED <<mainDataCache, loadedCryptos, started, superseded>>
    /\ UNCHANGED <<lastApiCallAge, invocations, restVars>>

(* api.ts:83 -> 59-62  the pause between pages is over: the next page is   *)
(* requested                                                               *)
WakePage(c) ==
    /\ calls[c].pc = "pageDelay"
    /\ calls[c].wait = 0
    /\ calls' = [calls EXCEPT ![c] = [@ EXCEPT !.pc = "req", !.page = @ + 1]]
    /\ ret' = NoReturn
    /\ UNCHANGED <<lastApiCallAge, mainDataCache, loadedCryptos, invocations,
                   started, superseded, restVars>>

(* api.ts:108-116  the page request is answered with HTTP 429 *)
Respond429(c) ==
    /\ calls[c].pc = "req"
    /\ calls' = [calls EXCEPT ![c] =
           [@ EXCEPT !.pc = "delay429", !.wait = Delay429(calls[c].attempt)]]
    /\ ret' = NoReturn
    /\ UNCHANGED <<lastApiCallAge, mainDataCache, loadedCryptos, invocations,
                   started, superseded, restVars>>

(* api.ts:108-133  the page request fails otherwise (timeout, network, 5xx) *)
RespondError(c) ==
    /\ calls[c].pc = "req"
    /\ IF calls[c].attempt < maxRetries
       THEN /\ calls' = [calls EXCEPT ![c] =
                   [@ EXCEPT !.pc = "delayError",
                             !.wait = DelayError(calls[c].attempt)]]
            /\ ret' = NoReturn
            /\ UNCHANGED <<loadedCryptos, started, superseded>>
       ELSE Exhausted(c)
    /\ UNCHANGED <<lastApiCallAge, mainDataCache, invocations, restVars>>

(* api.ts:116/120 -> 52  the retry delay is over: the next iteration, or   *)
(* the end of the loop                                                     *)
WakeRetry(c) ==
    /\ calls[c].pc \in {"delay429", "delayError"}
    /\ calls[c].wait = 0
    /\ IF calls[c].attempt < maxRetries
       THEN /\ calls' = [calls EXCEPT ![c] = BeginAttempt(@, calls[c].attempt + 1)]
            /\ ret' = NoReturn
            /\ UNCHANGED <<loadedCryptos, started, superseded>>
       ELSE Exhausted(c)
    /\ UNCHANGED <<lastApiCallAge, mainDataCache, invocations, restVars>>

(* ----------------------------- environment ---------------------------- *)
Sleeping == {c \in Callers : calls[c].pc \in {"rateWait", "pageDelay", "delay429", "delayError"}}

(* The time until the passing of time alone changes what the code does: a  *)
(* pending setTimeout falls due, the rate-limit interval since the last    *)
(* call ends, the cached snapshot expires.                                 *)
Distances ==
    {calls[c].wait : c \in {d \in Sleeping : calls[d].wait > 0}}
    \cup {API_RATE_LIMIT - lastApiCallAge : x \in {y \in {1} : RateLimited}}
    \cup {MAIN_CACHE_DURATION - mainDataCache.age : x \in {y \in {1} : CacheFresh}}

Least(S) == CHOOSE m \in S : \A n \in S : m <= n

(* Time passes, up to the nearest of those instants *)
Tick ==
    /\ Distances # {}
    /\ LET d == Least(Distances)
       IN  /\ lastApiCallAge' = Min(lastApiCallAge + d, AgeCap)
           /\ mainDataCache' = [mainDataCache EXCEPT !.age =
                                   IF mainDataCache.has
                                   THEN Min(@ + d, MAIN_CACHE_DURATION) ELSE @]
           /\ calls' = [c \in Callers |->
                          IF c \in Sleeping
                          THEN [calls[c] EXCEPT !.wait = Max(@ - d, 0)]
                          ELSE calls[c]]
    /\ ret' = NoReturn
    /\ UNCHANGED <<loadedCryptos, invocations, started, superseded, restVars>>

Next ==
    \/ \E c \in Callers, lim \in Limits : Call(c, lim)
    \/ \E c \in Callers : WakeRate(c)
    \/ \E c \in Callers : RespondOk(c)
    \/ \E c \in Callers : WakePage(c)
    \/ \E c \in Callers : Respond429(c)
    \/ \E c \in Callers : RespondError(c)
    \/ \E c \in Callers : WakeRetry(c)
    \/ Tick

Spec == Init /\ [][Next]_vars

(* The same program called with any number as `limit` *)
NextAnyLimit ==
    \/ \E c \in Callers, lim \in AnyLimits : Call(c, lim)
    \/ \E c \in Callers : WakeRate(c)
    \/ \E c \in Callers : RespondOk(c)
    \/ \E c \in Callers : WakePage(c)
    \/ \E c \in Callers : Respond429(c)
    \/ \E c \in Callers : RespondError(c)
    \/ \E c \in Callers : WakeRetry(c)
    \/ Tick

SpecAnyLimit == Init /\ [][NextAnyLimit]_vars

(* ------------------------ searchCryptocurrencies ---------------------- *)
(* api.ts:332  API_RATE_LIMIT * 1.5 *)
searchRateLimit == (API_RATE_LIMIT * 3) \div 2

(* GET /search?query= : the ids of the coins whose name or symbol contains  *)
(* the query, white space around it and case set aside, best rank first     *)
UpstreamSearch(query) ==
    LET q == trim(toLowerCase(query))
    IN  IF q = <<>> THEN <<>>
        ELSE SelectSeq([k \in 1..UpstreamTotal |-> k],
                       LAMBDA k : \/ includes(toLowerCase(UpstreamName(k)), q)
                                  \/ includes(toLowerCase(UpstreamSymbol(k)), q))

(* GET /coins/markets?ids=...&order=market_cap_desc, mapped as api.ts:377-388 *)
(* maps it: the listed coins among ids, best rank first                     *)
UpstreamMarkets(ids) ==
    LET listed == SelectSeq([k \in 1..UpstreamTotal |-> k],
                            LAMBDA k : \E i \in 1..Len(ids) : ids[i] = k)
    IN  [i \in 1..Len(listed) |-> [id |-> listed[i], rank |-> listed[i]]]

(* api.ts:270 *)
availableCryptos ==
    IF Len(loadedCryptos) > 0 THEN loadedCryptos ELSE mainDataCache.data

(* list.some(c => c.id === crypto.id) *)
someId(list, crypto) == \E i \in 1..Len(list) : list[i].id = crypto.id

(* api.ts:274-277 *)
exactMatches(av, lowerQuery) ==
    SelectSeq(av, LAMBDA crypto :
        \/ toLowerCase(symbol(crypto)) = lowerQuery
        \/ toLowerCase(name(crypto)) = lowerQuery)

(* Faulty variant of symbolStartMatches: the exact matches are not left out *)
symbolStartMatchesWithExact(av, lowerQuery) ==
    SelectSeq(av, LAMBDA crypto : startsWith(toLowerCase(symbol(crypto)), lowerQuery))

(* api.ts:279-282 *)
symbolStartMatches(av, lowerQuery) ==
    SelectSeq(av, LAMBDA crypto :
        /\ startsWith(toLowerCase(symbol(crypto)), lowerQuery)
        /\ ~someId(exactMatches(av, lowerQuery), crypto))

(* api.ts:284-288 *)
nameStartMatches(av, lowerQuery) ==
    SelectSeq(av, LAMBDA crypto :
        /\ startsWith(toLowerCase(name(crypto)), lowerQuery)
        /\ ~someId(exactMatches(av, lowerQuery), crypto)
        /\ ~someId(symbolStartMatches(av, lowerQuery), crypto))

(* api.ts:290-296 *)
partialMatches(av, lowerQuery) ==
    SelectSeq(av, LAMBDA crypto :
        /\ \/ includes(toLowerCase(name(crypto)), lowerQuery)
           \/ includes(toLowerCase(symbol(crypto)), lowerQuery)
        /\ ~someId(exactMatches(av, lowerQuery), crypto)
        /\ ~someId(symbolStartMatches(av, lowerQuery), crypto)
        /\ ~someId(nameStartMatches(av, lowerQuery), crypto))

(* Faulty variant of localResults: the matches in snapshot order *)
localResultsSnapshotOrder(av, query) ==
    Slice(SelectSeq(av, LAMBDA crypto :
              \/ includes(toLowerCase(name(crypto)), toLowerCase(query))
              \/ includes(toLowerCase(symbol(crypto)), toLowerCase(query))),
          MaxResults)

(* api.ts:264, 299-304 *)
localResults(av, query) ==
    LET lowerQuery == toLowerCase(query)
    IN  Slice(exactMatches(av, lowerQuery) \o symbolStartMatches(av, lowerQuery)
                \o nameStartMatches(av, lowerQuery) \o partialMatches(av, lowerQuery),
              MaxResults)

(* filter((crypto, index, self) => index === self.findIndex(c => c.id === crypto.id)) *)
RECURSIVE uniqueById(_)
uniqueById(list) ==
    IF list = <<>> THEN <<>>
    ELSE LET front == SubSeq(list, 1, Len(list) - 1)
             last  == list[Len(list)]
         IN  IF someId(front, last) THEN uniqueById(front)
             ELSE Append(uniqueById(front), last)

(* Faulty variant of sortByMarketCap: smallest market cap first *)
RECURSIVE sortByMarketCapAscending(_)
sortByMarketCapAscending(list) ==
    IF list = <<>> THEN <<>>
    ELSE LET front  == sortByMarketCapAscending(SubSeq(list, 1, Len(list) - 1))
             last   == list[Len(list)]
             before == SelectSeq(front, LAMBDA c : marketCap(c) <= marketCap(last))
             after  == SelectSeq(front, LAMBDA c : marketCap(c) > marketCap(last))
         IN  before \o <<last>> \o after

(* api.ts:397-401  Array.prototype.sort is stable: largest market cap first, *)
(* equal market caps in the order they had                                  *)
RECURSIVE sortByMarketCap(_)
sortByMarketCap(list) ==
    IF list = <<>> THEN <<>>
    ELSE LET front  == sortByMarketCap(SubSeq(list, 1, Len(list) - 1))
             last   == list[Len(list)]
             before == SelectSeq(front, LAMBDA c : marketCap(c) >= marketCap(last))
             after  == SelectSeq(front, LAMBDA c : marketCap(c) < marketCap(last))
         IN  before \o <<last>> \o after

(* api.ts:393-402 *)
combinedResults(local, comprehensiveResults) ==
    Slice(sortByMarketCap(uniqueById(local \o comprehensiveResults)), MaxResults)

(* searchCache.set(key, { data, timestamp: Date.now() }) *)
CacheSet(key, data) ==
    searchCache' = [searchCache EXCEPT ![key] = [has |-> TRUE, data |-> data, age |-> 0]]

(* the search of searcher x returns data by the return statement `kind` *)
SearchReturns(x, kind, data) ==
    /\ sret' = [kind |-> kind, data |-> data, query |-> searches[x].query]
    /\ searches' = [searches EXCEPT ![x] = NoSearch]

(* Faulty variant of isFresh: a cached entry is never used *)
isFreshNever(entry) == FALSE

(* api.ts:254  cached && Date.now() - cached.timestamp < CACHE_DURATION *)
isFresh(entry) == entry.has /\ entry.age < CACHE_DURATION

(* api.ts:249-343  the call up to its first await or return *)
Search(x, query) ==
    /\ searches[x].pc = "idle"
    /\ \A y \in Searchers : y < x => searches[y].pc # "idle"
    /\ searchCount < MaxSearches
    /\ searchCount' = searchCount + 1
    /\ LET cached == searchCache[cacheKey(query)]
           local  == localResults(availableCryptos, query)
           return(kind, data) == sret' = [kind |-> kind, data |-> data, query |-> query]
       IN  IF isFresh(cached)
           THEN /\ return("cached", cached.data)
                /\ UNCHANGED <<searchCache, searches, lastApiCallAge>>
           ELSE IF Len(query) < MinQueryLength
           THEN /\ return("tooShort", <<>>)
                /\ UNCHANGED <<searchCache, searches, lastApiCallAge>>
           ELSE IF Len(local) >= 1
           THEN /\ CacheSet(cacheKey(query), local)
                /\ return("local", local)
                /\ UNCHANGED <<searches, lastApiCallAge>>
           ELSE IF Len(availableCryptos) = 0
           THEN /\ return("noData", <<>>)
                /\ UNCHANGED <<searchCache, searches, lastApiCallAge>>
           ELSE IF Len(query) < MinApiQueryLength
           THEN /\ return("shortForApi", <<>>)
                /\ UNCHANGED <<searchCache, searches, lastApiCallAge>>
           ELSE IF lastApiCallAge < searchRateLimit
           THEN /\ CacheSet(cacheKey(query), local)
                /\ return("rateLimited", local)
                /\ UNCHANGED <<searches, lastApiCallAge>>
           ELSE /\ lastApiCallAge' = 0
                /\ searches' = [searches EXCEPT ![x] =
                       [NoSearch EXCEPT !.pc = "search", !.query = query,
                                        !.localResults = local]]
                /\ sret' = NoFound
                /\ UNCHANGED searchCache
    /\ UNCHANGED <<mainDataCache, loadedCryptos, calls, ret, invocations, started,
                   superseded, favVars, stVars>>

(* api.ts:348-362  the search request is answered *)
SearchRespondOk(x) ==
    /\ searches[x].pc = "search"
    /\ LET f == searches[x]
           searchHits == UpstreamSearch(f.query)
       IN  IF Len(searchHits) = 0
           THEN /\ CacheSet(cacheKey(f.query), f.localResults)
                /\ SearchReturns(x, "noHits", f.localResults)
           ELSE /\ searches' = [searches EXCEPT ![x] =
                       [f EXCEPT !.pc = "marketDelay",
                                 !.coinIds = Slice(searchHits, MaxRemoteHits),
                                 !.wait = MarketDelay]]
                /\ sret' = NoFound
                /\ UNCHANGED searchCache
    /\ UNCHANGED <<lastApiCallAge, mainDataCache, loadedCryptos, calls, ret,
                   invocations, started, superseded, favVars, stVars, searchCount>>

(* api.ts:362-364  the pause is over: the market data is requested *)
WakeMarket(x) ==
    /\ searches[x].pc = "marketDelay"
    /\ searches[x].wait = 0
    /\ searches' = [searches EXCEPT ![x] = [@ EXCEPT !.pc = "markets"]]
    /\ sret' = NoFound
    /\ UNCHANGED <<lastApiCallAge, mainDataCache, loadedCryptos, calls, ret,
                   invocations, started, superseded, favVars, stVars, searchCache, searchCount>>

(* api.ts:377-408  the market request is answered *)
MarketRespondOk(x) ==
    /\ searches[x].pc = "markets"
    /\ LET f == searches[x]
           combined == combinedResults(f.localResults, UpstreamMarkets(f.coinIds))
       IN  /\ CacheSet(cacheKey(f.query), combined)
           /\ SearchReturns(x, "combined", combined)
    /\ UNCHANGED <<lastApiCallAge, mainDataCache, loadedCryptos, calls, ret,
                   invocations, started, superseded, favVars, stVars, searchCount>>

(* Faulty variant of SearchRespondError: the failure reaches the caller *)
SearchRespondErrorThrows(x) ==
    /\ searches[x].pc \in {"search", "markets"}
    /\ SearchReturns(x, "error", <<>>)
    /\ UNCHANGED <<lastApiCallAge, mainDataCache, loadedCryptos, calls, ret,
                   invocations, started, superseded, favVars, stVars, searchCache, searchCount>>

(* api.ts:410-415  the search or the market request fails (429, timeout,    *)
(* network)                                                                 *)
SearchRespondError(x) ==
    /\ searches[x].pc \in {"search", "markets"}
    /\ CacheSet(cacheKey(searches[x].query), searches[x].localResults)
    /\ SearchReturns(x, "apiError", searches[x].localResults)
    /\ UNCHANGED <<lastApiCallAge, mainDataCache, loadedCryptos, calls, ret,
                   invocations, started, superseded, favVars, stVars, searchCount>>

(* The time until the passing of time alone changes what a search does *)
SearchDistances ==
    {searches[x].wait : x \in {y \in Searchers : searches[y].wait > 0}}
    \cup {searchRateLimit - lastApiCallAge :
             x \in {y \in {1} : lastApiCallAge < searchRateLimit}}
    \cup {CACHE_DURATION - searchCache[k].age :
             k \in {j \in Keys : searchCache[j].has /\ searchCache[j].age < CACHE_DURATION}}

(* Time passes, up to the nearest of those instants *)
TickSearch ==
    /\ SearchDistances # {}
    /\ LET d == Least(SearchDistances)
       IN  /\ lastApiCallAge' = Min(lastApiCallAge + d, searchRateLimit)
           /\ mainDataCache' = [mainDataCache EXCEPT !.age =
                                   IF mainDataCache.has
                                   THEN Min(@ + d, MAIN_CACHE_DURATION) ELSE @]
           /\ searchCache' = [k \in Keys |->
                                IF searchCache[k].has
                                THEN [searchCache[k] EXCEPT !.age =
                                         Min(@ + d, CACHE_DURATION)]
                                ELSE searchCache[k]]
           /\ searches' = [x \in Searchers |->
                             [searches[x] EXCEPT !.wait = Max(@ - d, 0)]]
    /\ sret' = NoFound
    /\ UNCHANGED <<loadedCryptos, calls, ret, invocations, started, superseded, favVars, stVars,
                   searchCount>>

(* The searches run against the snapshot a listing fetch has just left      *)
(* behind: the first n coins of the listing, as fetchTopCryptocurrencies(n) *)
(* caches and returns them; n = 0 is the module before any fetch.           *)
InitSearch ==
    /\ FavIdle
    /\ UIIdle
    /\ StorageIdle
    /\ \E n \in 0..UpstreamTotal :
          /\ loadedCryptos = MapCryptos(UpstreamPage(1, n))
          /\ mainDataCache = [has |-> n > 0, data |-> MapCryptos(UpstreamPage(1, n)),
                              age |-> 0]
          /\ lastApiCallAge = IF n > 0 THEN 0 ELSE searchRateLimit
    /\ calls = [c \in Callers |-> Idle]
    /\ ret = NoReturn
    /\ invocations = 0
    /\ started = <<>>
    /\ superseded = {}
    /\ searchCache = [k \in Keys |-> NoEntry]
    /\ searches = [x \in Searchers |-> NoSearch]
    /\ sret = NoFound
    /\ searchCount = 0

(* searches called directly, with no search field around them *)
NextSearch ==
    \/ (\E x \in Searchers, query \in Queries : Search(x, query)) /\ UNCHANGED uiVars
    \/ (\E x \in Searchers : SearchRespondOk(x)) /\ UNCHANGED uiVars
    \/ (\E x \in Searchers : WakeMarket(x)) /\ UNCHANGED uiVars
    \/ (\E x \in Searchers : MarketRespondOk(x)) /\ UNCHANGED uiVars
    \/ (\E x \in Searchers : SearchRespondError(x)) /\ UNCHANGED uiVars
    \/ TickSearch /\ UNCHANGED uiVars

SpecSearch == InitSearch /\ [][NextSearch]_vars

(* ------------- searches while the listing is fetched anew ------------- *)
(* The time until a load in flight or a search changes what it does: a    *)
(* pending setTimeout of either falls due, or one of SearchDistances       *)
ReloadDistances ==
    {calls[c].wait : c \in {d \in Sleeping : calls[d].wait > 0}}
    \cup SearchDistances

(* Time passes for the load and the searches together, up to the nearest   *)
(* of those instants                                                       *)
TickReload ==
    /\ ReloadDistances # {}
    /\ LET d == Least(ReloadDistances)
       IN  /\ lastApiCallAge' = Min(lastApiCallAge + d, searchRateLimit)
           /\ mainDataCache' = [mainDataCache EXCEPT !.age =
                                   IF mainDataCache.has
                                   THEN Min(@ + d, MAIN_CACHE_DURATION) ELSE @]
           /\ calls' = [c \in Callers |->
                          IF c \in Sleeping
                          THEN [calls[c] EXCEPT !.wait = Max(@ - d, 0)]
                          ELSE calls[c]]
           /\ searchCache' = [k \in Keys |->
                                IF searchCache[k].has
                                THEN [searchCache[k] EXCEPT !.age =
                                         Min(@ + d, CACHE_DURATION)]
                                ELSE searchCache[k]]
           /\ searches' = [x \in Searchers |->
                             [searches[x] EXCEPT !.wait = Max(@ - d, 0)]]
    /\ ret' = NoReturn
    /\ sret' = NoFound
    /\ UNCHANGED <<loadedCryptos, invocations, started, superseded, favVars, uiVars, stVars, searchCount>>

(* App.tsx:565  the listing is being loaded anew, with the one limit the   *)
(* component passes: the snapshot of the load before is in place and has   *)
(* expired in the cache, the load's first request has just been issued.    *)
InitReload ==
    /\ FavIdle
    /\ UIIdle
    /\ StorageIdle
    /\ searchCache = [k \in Keys |-> NoEntry]
    /\ searches = [x \in Searchers |-> NoSearch]
    /\ sret = NoFound
    /\ searchCount = 0
    /\ lastApiCallAge = 0
    /\ \E n \in 0..UpstreamTotal :
          /\ loadedCryptos = MapCryptos(UpstreamPage(1, n))
          /\ mainDataCache = [has |-> n > 0, data |-> MapCryptos(UpstreamPage(1, n)),
                              age |-> IF n > 0 THEN MAIN_CACHE_DURATION ELSE 0]
    /\ calls = [c \in Callers |->
                  IF c = 1 THEN BeginAttempt([Idle EXCEPT !.limit = MaxLimit], 1)
                  ELSE Idle]
    /\ ret = NoReturn
    /\ invocations = 1
    /\ started = <<1>>
    /\ superseded = {}

(* What the user types into the field: "", "ab", "aba", "aba ", "bbb"      *)
TypedQueries ==
    { <<>>, <<"a", "b">>, <<"a", "b", "a">>, <<"a", "b", "a", " ">>,
      <<"b", "b", "b">> }

(* The upstream answers every page of the load; searches run meanwhile,   *)
(* one at a time.                                                          *)
NextSearchReload ==
    \/ RespondOk(1)
    \/ WakePage(1)
    \/ (\E query \in TypedQueries : Search(1, query)) /\ UNCHANGED uiVars
    \/ SearchRespondOk(1) /\ UNCHANGED uiVars
    \/ WakeMarket(1) /\ UNCHANGED uiVars
    \/ MarketRespondOk(1) /\ UNCHANGED uiVars
    \/ SearchRespondError(1) /\ UNCHANGED uiVars
    \/ TickReload

SpecSearchReload == InitReload /\ [][NextSearchReload]_vars

(* --------------------------- the search field ------------------------- *)
(* App.tsx:20-29  clearTimeout(debounceTimer), then a new timeout whose    *)
(* callback passes the query on                                            *)
debouncedSearch(timer, query) ==
    [pending |-> TRUE, query |-> query, left |-> DebounceDelay]

(* App.tsx:611-620  the field changes to query *)
HandleSearchChange(query) ==
    /\ inputs < MaxInputs
    /\ query # searchQuery
    /\ inputs' = inputs + 1
    /\ searchQuery' = query
    /\ IF trim(query) # <<>>
       THEN /\ isSearching' = TRUE
            /\ debounceTimer' = debouncedSearch(debounceTimer, query)
            /\ UNCHANGED <<searchResults, resultsFor>>
       ELSE /\ searchResults' = <<>>
            /\ isSearching' = FALSE
            /\ resultsFor' = <<>>
            /\ UNCHANGED debounceTimer
    /\ sret' = NoFound
    /\ UNCHANGED <<lastApiCallAge, mainDataCache, loadedCryptos, calls, ret,
                   invocations, started, superseded, searchCache, searches,
                   searchCount, submitted, favVars, stVars>>

(* App.tsx:598-605  performSearch goes on after its await: the results     *)
(* the search step returned, if it returned, are put into the state        *)
PerformSearchResumes ==
    IF sret'.kind # "none"
    THEN /\ searchResults' = (IF sret'.kind = "error" THEN <<>> ELSE sret'.data)
         /\ isSearching' = FALSE
         /\ resultsFor' = sret'.query
    ELSE UNCHANGED <<searchResults, isSearching, resultsFor>>

(* App.tsx:25-27, 589-606  the timeout fires: performSearch(query) runs up *)
(* to its await, and beyond it when the search returns at once             *)
DebounceFires ==
    /\ debounceTimer.pending
    /\ debounceTimer.left = 0
    /\ debounceTimer' = [debounceTimer EXCEPT !.pending = FALSE]
    /\ submitted' = debounceTimer.query
    /\ UNCHANGED <<searchQuery, inputs>>
    /\ IF trim(debounceTimer.query) = <<>>
       THEN /\ searchResults' = <<>>
            /\ isSearching' = FALSE
            /\ resultsFor' = <<>>
            /\ sret' = NoFound
            /\ UNCHANGED <<lastApiCallAge, mainDataCache, loadedCryptos, calls, ret,
                           invocations, started, superseded, searchCache, searches,
                           searchCount, favVars, stVars>>
       ELSE /\ \E x \in Searchers : Search(x, debounceTimer.query)
            /\ IF sret'.kind # "none"
               THEN PerformSearchResumes
               ELSE /\ isSearching' = TRUE
                    /\ UNCHANGED <<searchResults, resultsFor>>

(* a request of a running search is answered, or its pause ends *)
SearchProceeds(step) ==
    /\ step
    /\ PerformSearchResumes
    /\ UNCHANGED <<searchQuery, debounceTimer, submitted, inputs>>

(* The pending timeout is nearer than any instant the searches wait for,   *)
(* which are whole seconds away: time passes until it is due, and the ages *)
(* counted in seconds stay                                                 *)
TickDebounce ==
    /\ debounceTimer.pending
    /\ debounceTimer.left > 0
    /\ debounceTimer' = [debounceTimer EXCEPT !.left = 0]
    /\ sret' = NoFound
    /\ UNCHANGED <<lastApiCallAge, mainDataCache, loadedCryptos, calls, ret,
                   invocations, started, superseded, searchCache, searches,
                   searchCount, searchQuery, isSearching, searchResults, submitted,
                   resultsFor, inputs, favVars, stVars>>

(* No timeout of the field is pending (one that is due fires first): time *)
(* passes for the searches                                                 *)
TickUI ==
    /\ ~debounceTimer.pending
    /\ TickSearch
    /\ UNCHANGED uiVars

NextUI ==
    \/ \E query \in TypedQueries : HandleSearchChange(query)
    \/ DebounceFires
    \/ \E x \in Searchers : SearchProceeds(SearchRespondOk(x))
    \/ \E x \in Searchers : SearchProceeds(WakeMarket(x))
    \/ \E x \in Searchers : SearchProceeds(MarketRespondOk(x))
    \/ \E x \in Searchers : SearchProceeds(SearchRespondError(x))
    \/ TickDebounce
    \/ TickUI

(* the component over a loaded (or still empty) listing *)
SpecUI == InitSearch /\ [][NextUI]_vars

(* --------------------------- FavoritesStorage ------------------------- *)
(* The lists of favorite ids that are saved: [], ['1'], ['2'], ['1','2'],  *)
(* ['2','1'] (Array.from of a Set: no id twice)                            *)
SavedLists == {<<>>, <<1>>, <<2>>, <<1, 2>>, <<2, 1>>}

Item(favorites) == [has |-> TRUE, favorites |-> favorites]

(* Which backends work while a call runs: IndexedDB requests succeed,      *)
(* localStorage and sessionStorage do not throw, the bin service answers   *)
(* with 2xx                                                                *)
Envs == [idb : BOOLEAN, local : BOOLEAN, session : BOOLEAN, cloud : BOOLEAN]

Platforms == {"android", "iosIframe", "other"}

(* storage.ts:121  new Set(favorites): the first occurrence of each id *)
asSet(favorites) ==
    SelectSeq([i \in 1..Len(favorites) |->
                  IF \E j \in 1..(i - 1) : favorites[j] = favorites[i]
                  THEN 0 ELSE favorites[i]],
              LAMBDA id : id # 0)

(* storage.ts:126-131  MemoryStorage.load: null when the set is empty *)
memoryLoad(mem) == IF Len(mem) = 0 THEN NoItem ELSE Item(mem)

(* storage.ts:83-112  IndexedDBStorage.load: null without a database, when *)
(* the request fails, or without a record holding a favorites array        *)
indexedDBLoad(idb, env) ==
    IF idb.db /\ env.idb /\ idb.record.has THEN idb.record ELSE NoItem

(* storage.ts:171-201  TraditionalStorage.load: the first of the four      *)
(* items that can be read and holds an array                               *)
traditionalLoad(t, env) ==
    IF env.local /\ t.local.has THEN t.local
    ELSE IF env.session /\ t.session.has THEN t.session
    ELSE IF env.local /\ t.oldLocal.has THEN t.oldLocal
    ELSE IF env.session /\ t.oldSession.has THEN t.oldSession
    ELSE NoItem

(* cloudStorage.ts:277-325  JSONBinStorage.load: null without a bin id,    *)
(* when the request fails, or when the record holds no favorites array     *)
cloudLoad(c, env) ==
    IF c.binId /\ env.cloud /\ c.bin.has THEN c.bin ELSE NoItem

(* storage.ts:51-81  IndexedDBStorage.save *)
indexedDBSave(idb, favorites, env) ==
    IF idb.db /\ env.idb THEN [idb EXCEPT !.record = Item(favorites)] ELSE idb

(* storage.ts:145-169  TraditionalStorage.save: localStorage, and          *)
(* sessionStorage only when localStorage throws                            *)
traditionalSave(t, favorites, env) ==
    IF env.local THEN [t EXCEPT !.local = Item(favorites)]
    ELSE IF env.session THEN [t EXCEPT !.session = Item(favorites)]
    ELSE t

(* cloudStorage.ts:191-275  JSONBinStorage.save: the bin is created or     *)
(* updated; its id is kept, and stored in localStorage if that works       *)
cloudSave(c, favorites, env) ==
    IF env.cloud
    THEN [binId |-> TRUE, storedBinId |-> c.storedBinId \/ env.local,
          bin |-> Item(favorites)]
    ELSE c

(* storage.ts:16-49  IndexedDBStorage.init *)
indexedDBInit(idb, env) == IF env.idb THEN [idb EXCEPT !.db = TRUE] ELSE idb

(* cloudStorage.ts:170-189  JSONBinStorage.init: the bin id is read from   *)
(* localStorage, null when that throws                                     *)
cloudInit(c, env) == [c EXCEPT !.binId = env.local /\ c.storedBinId]

(* storage.ts:324-352  the loaders in the order of the platform, as the    *)
(* results they give                                                       *)
loaders(platform, mem, idb, t, c, env) ==
    IF platform = "android"
    THEN <<memoryLoad(mem), traditionalLoad(t, env), indexedDBLoad(idb, env),
           cloudLoad(c, env)>>
    ELSE IF platform = "iosIframe"
    THEN <<memoryLoad(mem), cloudLoad(c, env), indexedDBLoad(idb, env),
           traditionalLoad(t, env)>>
    ELSE <<memoryLoad(mem), indexedDBLoad(idb, env), traditionalLoad(t, env),
           cloudLoad(c, env)>>

(* storage.ts:354-365  the first result that is non-null and non-empty *)
firstLoaded(results) ==
    LET found == SelectSeq(results, LAMBDA r : r.has /\ Len(r.favorites) > 0)
    IN  IF Len(found) > 0 THEN found[1] ELSE NoItem

(* storage.ts:241-266  init() *)
StorageInit(env) ==
    /\ ~initialized
    /\ storageOps < MaxStorageOps
    /\ storageOps' = storageOps + 1
    /\ indexedDB' = indexedDBInit(indexedDB, env)
    /\ cloud' = cloudInit(cloud, env)
    /\ initialized' = TRUE
    /\ lret' = NoLoaded
    /\ UNCHANGED <<memory, traditional, platformInfo, lastSaved>>
    /\ UNCHANGED <<lastApiCallAge, mainDataCache, loadedCryptos, calls, ret,
                   invocations, started, superseded, searchVars, favVars, uiVars>>

(* storage.ts:268-313  saveFavorites(favorites), its writes completed *)
SaveFavorites(favorites, env) ==
    /\ storageOps < MaxStorageOps
    /\ storageOps' = storageOps + 1
    /\ memory' = asSet(favorites)
    /\ IF ~initialized
       THEN UNCHANGED <<indexedDB, traditional, cloud>>
       ELSE /\ indexedDB' = indexedDBSave(indexedDB, favorites, env)
            /\ traditional' = traditionalSave(traditional, favorites, env)
            /\ cloud' = cloudSave(cloud, favorites, env)
    /\ lastSaved' = Item(favorites)
    /\ lret' = NoLoaded
    /\ UNCHANGED <<initialized, platformInfo>>
    /\ UNCHANGED <<lastApiCallAge, mainDataCache, loadedCryptos, calls, ret,
                   invocations, started, superseded, searchVars, favVars, uiVars>>

(* storage.ts:315-369  loadFavorites(): init() first if it has not run;    *)
(* the list that is found is saved again to every backend                  *)
LoadFavorites(env) ==
    /\ storageOps < MaxStorageOps
    /\ storageOps' = storageOps + 1
    /\ initialized' = TRUE
    /\ LET idb    == IF initialized THEN indexedDB ELSE indexedDBInit(indexedDB, env)
           c      == IF initialized THEN cloud ELSE cloudInit(cloud, env)
           result == firstLoaded(loaders(platformInfo, memory, idb, traditional,
                                         c, env))
       IN  IF result.has
           THEN /\ memory' = asSet(result.favorites)
                /\ indexedDB' = indexedDBSave(idb, result.favorites, env)
                /\ traditional' = traditionalSave(traditional, result.favorites, env)
                /\ cloud' = cloudSave(c, result.favorites, env)
                /\ lastSaved' = Item(result.favorites)
                /\ lret' = [kind |-> "loaded", data |-> result.favorites]
           ELSE /\ indexedDB' = idb
                /\ cloud' = c
                /\ lret' = [kind |-> "loaded", data |-> <<>>]
                /\ UNCHANGED <<memory, traditional, lastSaved>>
    /\ UNCHANGED platformInfo
    /\ UNCHANGED <<lastApiCallAge, mainDataCache, loadedCryptos, calls, ret,
                   invocations, started, superseded, searchVars, favVars, uiVars>>

(* storage.ts:233-239, 433  the singleton after construction, on any       *)
(* platform; an earlier session of this version saved a list to the        *)
(* persistent backends, or one of the old version did, or none has         *)
InitStorage ==
    /\ initialized = FALSE
    /\ memory = <<>>
    /\ platformInfo \in Platforms
    /\ \E before \in {"never", "now", "old"}, l \in SavedLists \ {<<>>} :
          /\ indexedDB = [db |-> FALSE,
                          record |-> IF before = "now" THEN Item(l) ELSE NoItem]
          /\ traditional = [local |-> IF before = "now" THEN Item(l) ELSE NoItem,
                            session |-> NoItem,
                            oldLocal |-> IF before = "old" THEN Item(l) ELSE NoItem,
                            oldSession |-> NoItem]
          /\ cloud = [binId |-> FALSE, storedBinId |-> before = "now",
                      bin |-> IF before = "now" THEN Item(l) ELSE NoItem]
    /\ lastSaved = NoItem
    /\ lret = NoLoaded
    /\ storageOps = 0
    /\ lastApiCallAge = AgeCap
    /\ mainDataCache = [has |-> FALSE, data |-> <<>>, age |-> 0]
    /\ loadedCryptos = <<>>
    /\ calls = [c \in Callers |-> Idle]
    /\ ret = NoReturn
    /\ invocations = 0
    /\ started = <<>>
    /\ superseded = {}
    /\ searchCache = [k \in Keys |-> NoEntry]
    /\ searches = [x \in Searchers |-> NoSearch]
    /\ sret = NoFound
    /\ searchCount = 0
    /\ FavIdle
    /\ UIIdle

NextStorage ==
    \/ \E env \in Envs : StorageInit(env)
    \/ \E favorites \in SavedLists, env \in Envs : SaveFavorites(favorites, env)
    \/ \E env \in Envs : LoadFavorites(env)

SpecStorage == InitStorage /\ [][NextStorage]_vars

(* ------------------------ fetchMissingFavorites ------------------------ *)
(* App.tsx:356  Array.from(favorites): a Set, so no id twice.  The ids are *)
(* those of listed coins, and 0, which the upstream does not know.         *)
FavoriteLists ==
    {<<>>, <<1>>, <<0>>, <<3>>, <<1, 2>>, <<2, 3>>, <<3, 0>>,
     <<0, 3, 2>>, <<3, 2, 1>>, <<1, 2, 3>>, <<3, 0, 2, 1>>}

(* Faulty variant of missingIds: the loaded ids are not taken out *)
missingIdsUnfiltered(favoriteIds, loaded) == favoriteIds

(* api.ts:180-181 *)
missingIds(favoriteIds, loaded) ==
    SelectSeq(favoriteIds, LAMBDA id : ~(\E i \in 1..Len(loaded) : loaded[i].id = id))

(* Faulty variant of idsToFetch: every missing id is requested *)
idsToFetchAll(missing) == missing

(* api.ts:200  missingIds.slice(0, 50) *)
idsToFetch(missing) == Slice(missing, idsPerBatch)

(* Faulty variant of favRateLimited: the interval is not enforced *)
favRateLimitedNever == FALSE

(* api.ts:192  currentTime - lastApiCallTime < API_RATE_LIMIT *)
favRateLimited == lastApiCallAge < API_RATE_LIMIT

(* api.ts:215-226  market_cap_rank || 999; 0 stands for a missing rank *)
mapMissingFavorites(data) ==
    [i \in 1..Len(data) |->
        [id |-> data[i].id, rank |-> IF data[i].rank = 0 THEN 999 ELSE data[i].rank]]

(* api.ts:177-213  the call up to its await or return *)
FetchMissingFavorites(y, favoriteIds) ==
    /\ favCalls[y].pc = "idle"
    /\ \A z \in FavCallers : z < y => favCalls[z].pc # "idle"
    /\ favCount < MaxFavCalls
    /\ favCount' = favCount + 1
    /\ LET missing == missingIds(favoriteIds, loadedCryptos)
           return(kind) == fret' = [kind |-> kind, data |-> <<>>,
                                    favoriteIds |-> favoriteIds]
       IN  IF Len(missing) = 0
           THEN /\ return("noneMissing")
                /\ UNCHANGED <<favCalls, lastApiCallAge>>
           ELSE IF favRateLimited
           THEN /\ return("rateLimited")
                /\ UNCHANGED <<favCalls, lastApiCallAge>>
           ELSE /\ lastApiCallAge' = 0
                /\ favCalls' = [favCalls EXCEPT ![y] =
                       [pc |-> "req", favoriteIds |-> favoriteIds,
                        idsToFetch |-> idsToFetch(missing)]]
                /\ fret' = NoMissing
    /\ UNCHANGED <<mainDataCache, loadedCryptos, calls, ret, invocations, started,
                   superseded, searchVars, uiVars, stVars>>

(* api.ts:215-229  the request is answered *)
FavRespondOk(y) ==
    /\ favCalls[y].pc = "req"
    /\ fret' = [kind |-> "fetched",
                data |-> mapMissingFavorites(UpstreamMarkets(favCalls[y].idsToFetch)),
                favoriteIds |-> favCalls[y].favoriteIds]
    /\ favCalls' = [favCalls EXCEPT ![y] = NoFavCall]
    /\ UNCHANGED <<lastApiCallAge, mainDataCache, loadedCryptos, calls, ret,
                   invocations, started, superseded, favCount, searchVars, uiVars,
                   stVars>>

(* api.ts:231-240  the request fails (429, timeout, network) *)
FavRespondError(y) ==
    /\ favCalls[y].pc = "req"
    /\ fret' = [kind |-> "failed", data |-> <<>>,
                favoriteIds |-> favCalls[y].favoriteIds]
    /\ favCalls' = [favCalls EXCEPT ![y] = NoFavCall]
    /\ UNCHANGED <<lastApiCallAge, mainDataCache, loadedCryptos, calls, ret,
                   invocations, started, superseded, favCount, searchVars, uiVars,
                   stVars>>

(* Time passes until the interval since the last call has elapsed *)
TickFav ==
    /\ lastApiCallAge < API_RATE_LIMIT
    /\ lastApiCallAge' = API_RATE_LIMIT
    /\ fret' = NoMissing
    /\ UNCHANGED <<mainDataCache, loadedCryptos, calls, ret, invocations, started,
                   superseded, favCalls, favCount, searchVars, uiVars, stVars>>

(* App.tsx:346-374  the listing has been loaded (or not yet: the empty     *)
(* snapshot), its request stamped the last call                            *)
InitFav ==
    /\ \E n \in 0..UpstreamTotal :
          /\ loadedCryptos = MapCryptos(UpstreamPage(1, n))
          /\ mainDataCache = [has |-> n > 0, data |-> MapCryptos(UpstreamPage(1, n)),
                              age |-> 0]
          /\ lastApiCallAge = IF n > 0 THEN 0 ELSE API_RATE_LIMIT
    /\ calls = [c \in Callers |-> Idle]
    /\ ret = NoReturn
    /\ invocations = 0
    /\ started = <<>>
    /\ superseded = {}
    /\ searchCache = [k \in Keys |-> NoEntry]
    /\ searches = [x \in Searchers |-> NoSearch]
    /\ sret = NoFound
    /\ searchCount = 0
    /\ FavIdle
    /\ UIIdle
    /\ StorageIdle

NextFav ==
    \/ \E y \in FavCallers, favoriteIds \in FavoriteLists :
          FetchMissingFavorites(y, favoriteIds)
    \/ \E y \in FavCallers : FavRespondOk(y)
    \/ \E y \in FavCallers : FavRespondError(y)
    \/ TickFav

SpecFav == InitFav /\ [][NextFav]_vars

(* ============================= properties ============================= *)
(* Reading a step: what caller c does between two states                   *)
Fetching(c) == calls[c].pc \in {"req", "pageDelay", "delay429", "delayError"}
Issues(c) == calls[c].pc # "req" /\ calls'[c].pc = "req"
Invoked == invocations' = invocations + 1
Prefix(s, n) == [i \in 1..(IF n < Len(s) THEN n ELSE Len(s)) |-> s[i]]

(* time alone passed over the cache *)
CacheAged ==
    /\ mainDataCache'.has = mainDataCache.has
    /\ mainDataCache'.data = mainDataCache.data
    /\ mainDataCache'.age >= mainDataCache.age

(* C1: at most one listing fetch is in flight at any time: a call made     *)
(* while an earlier call's page requests are outstanding starts no fetch   *)
(* cycle of its own.                                                       *)
C1_AtMostOneFetchInFlight ==
    Cardinality({c \in Callers : Fetching(c)}) <= 1

C3_FreshCacheServedWithoutRequest ==
    [][(Invoked /\ mainDataCache.has /\ mainDataCache.age < 120) =>
          /\ ret'.kind = "cacheHit"
          /\ ret'.data = Prefix(mainDataCache.data, ret'.limit)
          /\ calls' = calls
          /\ lastApiCallAge' = lastApiCallAge
          /\ mainDataCache' = mainDataCache
          /\ (ret.kind = "cacheHit" /\ ret.limit = ret'.limit) => ret'.data = ret.data
      ]_vars

(* C3 witness: a cache hit has just returned a proper prefix of the snapshot *)
C3_Witness ==
    /\ ret.kind = "cacheHit"
    /\ mainDataCache.age < 120
    /\ ret.limit < Len(mainDataCache.data)
    /\ Len(ret.data) = ret.limit

(* C4 as stated: a call made sooner than 6 s after the previous network    *)
(* call never issues a network call.  (A call is suspended at "rateWait"   *)
(* exactly when it was made inside the interval with no snapshot cached.)  *)
C4_CallWithinIntervalNeverFetches ==
    [][\A c \in Callers : calls[c].pc = "rateWait" => ~Issues(c)]_vars

(* C4 amended: a call made sooner than 6 s after the previous network call *)
(* issues no network call inside that interval: with a snapshot cached     *)
(* (fresh or stale) it returns its first min(limit, size) records at once; *)
(* with none it waits out the remainder of the interval and only then      *)
(* issues its request.                                                     *)
C4_CallWithinIntervalWaitsOrServesCache ==
    [][/\ (Invoked /\ lastApiCallAge < 6) =>
            /\ lastApiCallAge' = lastApiCallAge
            /\ \A c \in Callers : ~Issues(c)
            /\ IF mainDataCache.has
               THEN /\ ret'.kind \in {"cacheHit", "rateLimited"}
                    /\ ret'.data = Prefix(mainDataCache.data, ret'.limit)
                    /\ calls' = calls
               ELSE /\ ret'.kind = "none"
                    /\ \E c \in Callers :
                          /\ calls[c].pc = "idle"
                          /\ calls'[c].pc = "rateWait"
                          /\ calls'[c].wait = 6 - lastApiCallAge
       /\ \A c \in Callers :
             (calls[c].pc = "rateWait" /\ Issues(c)) =>
                 calls[c].wait = 0 /\ lastApiCallAge' = 0
      ]_vars

(* C4 witness: a call made inside the interval with nothing cached has     *)
(* waited the interval out and is about to fetch                           *)
C4_Witness ==
    \E c \in Callers :
       calls[c].pc = "rateWait" /\ calls[c].wait = 0 /\ ~mainDataCache.has

(* C5: a call made inside the minimum interval with an expired snapshot    *)
(* present returns that stale snapshot at once, without waiting, failing   *)
(* or fetching; a call starts waiting only when no snapshot exists at all, *)
(* and a waiting call goes on to fetch.                                    *)
C5_StaleSnapshotServedInsideInterval ==
    [][/\ (Invoked /\ lastApiCallAge < 6 /\ mainDataCache.has
              /\ mainDataCache.age >= 120) =>
            /\ ret'.kind = "rateLimited"
            /\ ret'.data = Prefix(mainDataCache.data, ret'.limit)
            /\ calls' = calls
            /\ mainDataCache' = mainDataCache
       /\ \A c \in Callers :
             /\ (calls[c].pc # "rateWait" /\ calls'[c].pc = "rateWait") =>
                   Invoked /\ ~mainDataCache.has /\ lastApiCallAge < 6
             /\ (calls[c].pc = "rateWait" /\ calls'[c].pc # "rateWait") =>
                   calls'[c].pc = "req" /\ calls'[c].attempt = 1 /\ calls'[c].page = 1
      ]_vars

(* C5 witness: an expired snapshot has just been served inside the interval *)
C5_Witness ==
    /\ ret.kind = "rateLimited"
    /\ mainDataCache.age >= 120
    /\ lastApiCallAge < 6
    /\ Len(ret.data) >= 1

(* the step in which the call of c leaves its retry loop without a result *)
GivesUp(c) == Fetching(c) /\ calls'[c].pc = "idle" /\ ret'.kind # "fetched"

(* C6: a call fails only when its retries are exhausted and no snapshot    *)
(* has ever been cached; when the retries are exhausted and a snapshot     *)
(* exists (even stale) its first min(limit, size) records are returned     *)
(* instead; a cached snapshot is never dropped, so after the first         *)
(* successful fetch no call fails.                                         *)
C6_ErrorOnlyWithoutAnySnapshot ==
    [][/\ ret'.kind = "error" =>
            /\ ~mainDataCache.has
            /\ \E c \in Callers : GivesUp(c) /\ calls[c].attempt = 3
       /\ \A c \in Callers :
             (GivesUp(c) /\ mainDataCache.has) =>
                 /\ ret'.kind = "fallback"
                 /\ ret'.data = Prefix(mainDataCache.data, calls[c].limit)
                 /\ calls[c].attempt = 3
       /\ mainDataCache.has => mainDataCache'.has
      ]_vars

(* C6 witness: a call whose retries were exhausted has just returned the   *)
(* snapshot cached before                                                  *)
C6_Witness ==
    /\ ret.kind = "fallback"
    /\ mainDataCache.has
    /\ Len(ret.data) >= 1

(* C7: the response of a fetch never overwrites a snapshot cached by a     *)
(* fetch that started later: when a superseded call ends, the cache (data  *)
(* and timestamp) is as it was.                                            *)
C7_SupersededResultDiscarded ==
    [][\A c \in superseded : calls'[c].pc = "idle" => mainDataCache' = mainDataCache]_vars

(* C8: a failure on page k is followed by a retry of page k alone: the     *)
(* request issued after the retry delay is for the page that failed, and   *)
(* the pages gathered so far are kept.                                     *)
C8_RetryRequestsFailedPageAlone ==
    [][\A c \in Callers :
          (calls[c].pc \in {"delay429", "delayError"} /\ Issues(c)) =>
              /\ calls'[c].page = calls[c].page
              /\ calls'[c].allCryptos = calls[c].allCryptos
      ]_vars

(* C9: a call makes at most 3 attempts; a 429 on attempt a is followed by  *)
(* a pause of a x 10 s, another error on attempt a < 3 by a pause of       *)
(* a x 3 s; the next attempt starts only when the pause is over; after the *)
(* third failed attempt the call issues no further request.                *)
C9_RetryCeilingAndLinearDelays ==
    [][\A c \in Callers :
          /\ (calls[c].pc = "req" /\ calls'[c].pc = "delay429") =>
                calls'[c].wait = calls[c].attempt * 10
          /\ (calls[c].pc = "req" /\ calls'[c].pc = "delayError") =>
                calls'[c].wait = calls[c].attempt * 3 /\ calls[c].attempt < 3
          /\ Issues(c) => calls'[c].attempt \in 1..3
          /\ (calls[c].pc \in {"delay429", "delayError"} /\ Issues(c)) =>
                calls[c].wait = 0 /\ calls'[c].attempt = calls[c].attempt + 1
          /\ (calls[c].pc \in {"delay429", "delayError"} /\ calls[c].attempt = 3) =>
                ~Issues(c)
          /\ (calls[c].pc = "req" /\ calls[c].attempt = 3 /\ calls'[c].pc # "req") =>
                calls'[c].pc \in {"idle", "pageDelay", "delay429"}
      ]_vars

(* C9 witness: the third attempt was answered 429 and the call pauses 30 s *)
C9_Witness ==
    \E c \in Callers :
       calls[c].pc = "delay429" /\ calls[c].attempt = 3 /\ calls[c].wait = 30

(* C10: every listing page request sets the last-network-call timestamp to *)
(* the time the request is issued.                                         *)
C10_EveryPageRequestStampsLastCall ==
    [][\A c \in Callers : Issues(c) => lastApiCallAge' = 0]_vars

(* ------------------------------- search ------------------------------- *)
(* Reading a step: the invocation of search with the query q; a request    *)
(* that a search sends                                                     *)
SearchedFor(q) ==
    /\ searchCount' = searchCount + 1
    /\ \/ sret'.kind # "none" /\ sret'.query = q
       \/ \E x \in Searchers :
             searches[x].pc = "idle" /\ searches'[x].pc # "idle" /\ searches'[x].query = q
Requests(x) ==
    searches'[x].pc \in {"search", "markets"} /\ searches'[x].pc # searches[x].pc
Normalized(q) == trim(toLowerCase(q))
Unexpired(k) == searchCache[k].has /\ searchCache[k].age < 600

(* a call returned in the step just taken *)
Returned == ret.kind \in {"cacheHit", "rateLimited", "fetched", "fallback"}

(* C11: for every limit >= 1 a call returns at most `limit` records, and    *)
(* the rank of each returned record is its 1-based position in the returned *)
(* sequence: 1..N across the pages of a fetch, 1..k on the prefix served    *)
(* from the cache.                                                          *)
C11_RankIsPositionInReturnedList ==
    Returned =>
       /\ Len(ret.data) <= ret.limit
       /\ \A i \in 1..Len(ret.data) : ret.data[i].rank = i

(* C11 witness: a fetch of more than one page has returned, and its last    *)
(* record carries the rank of its position                                  *)
C11_Witness ==
    /\ ret.kind = "fetched"
    /\ Len(ret.data) > maxPerPage
    /\ ret.data[Len(ret.data)].rank = Len(ret.data)

(* the step is the invocation of the fetcher with `limit` = lim *)
InvokedWith(lim) ==
    /\ Invoked
    /\ \/ ret'.kind # "none" /\ ret'.limit = lim
       \/ \E c \in Callers :
             calls[c].pc = "idle" /\ calls'[c].pc # "idle" /\ calls'[c].limit = lim

(* C12: a call with limit < 1 fails at once with InvalidArgument: no        *)
(* request, no retry, and the snapshot cache and the last-call timestamp    *)
(* stay as they were.                                                       *)
C12_LimitBelowOneRejected ==
    [][\A lim \in AnyLimits :
          (lim < 1 /\ InvokedWith(lim)) =>
              /\ ret'.kind = "invalidArgument"
              /\ calls' = calls
              /\ mainDataCache' = mainDataCache
              /\ lastApiCallAge' = lastApiCallAge
      ]_vars

(* C13: for every empty or white-space-only query search returns [] and    *)
(* writes nothing to the search cache, leaves the last-call timestamp as   *)
(* it was and sends no request.                                            *)
C13_BlankQueryHasNoEffect ==
    [][\A q \in Queries :
          (Normalized(q) = <<>> /\ SearchedFor(q)) =>
              /\ sret'.kind # "none" /\ sret'.data = <<>>
              /\ searchCache' = searchCache
              /\ lastApiCallAge' = lastApiCallAge
              /\ \A x \in Searchers : ~Requests(x)
      ]_vars

(* C14: when the trimmed, lowercased query has fewer than 2 characters,    *)
(* search returns [] without ranking the snapshot, writing the search      *)
(* cache or sending a request.                                             *)
C14_ShortNormalizedQueryReturnsEmpty ==
    [][\A q \in Queries :
          (Len(Normalized(q)) < 2 /\ SearchedFor(q)) =>
              /\ sret'.kind # "none" /\ sret'.data = <<>>
              /\ searchCache' = searchCache
              /\ \A x \in Searchers : ~Requests(x)
      ]_vars

(* The tier the claim puts a record in for a query: 1 symbol or name equal *)
(* to it, 2 symbol starting with it, 3 name starting with it, 4 symbol or  *)
(* name containing it, 0 no match; letter case set aside.                  *)
TierOf(crypto, q) ==
    LET lq  == toLowerCase(q)
        sym == toLowerCase(symbol(crypto))
        nm  == toLowerCase(name(crypto))
    IN  IF sym = lq \/ nm = lq THEN 1
        ELSE IF startsWith(sym, lq) THEN 2
        ELSE IF startsWith(nm, lq) THEN 3
        ELSE IF includes(sym, lq) \/ includes(nm, lq) THEN 4
        ELSE 0
Tier(av, q, t) == SelectSeq(av, LAMBDA crypto : TierOf(crypto, q) = t)
RankedByTier(av, q) ==
    Prefix(Tier(av, q, 1) \o Tier(av, q, 2) \o Tier(av, q, 3) \o Tier(av, q, 4),
           MaxResults)

(* C15: the local results of a search are the tiers (a) equal, (b) symbol  *)
(* starts with, (c) name starts with, (d) contains, in this order, each in *)
(* snapshot order, no record twice, cut to the maximum (20).               *)
C15_LocalResultsAreTiersInOrder ==
    sret.kind \in {"local", "rateLimited", "noHits", "apiError"} =>
       /\ sret.data = RankedByTier(availableCryptos, sret.query)
       /\ Len(sret.data) <= MaxResults
       /\ \A i, j \in 1..Len(sret.data) : i # j => sret.data[i] # sret.data[j]

(* C15 witness: more records matched than are returned, and a record of a  *)
(* higher tier is returned ahead of one that precedes it in the snapshot   *)
C15_Witness ==
    /\ sret.kind = "local"
    /\ Len(sret.data) = MaxResults
    /\ Cardinality({i \in 1..Len(availableCryptos) :
                       TierOf(availableCryptos[i], sret.query) > 0}) > MaxResults
    /\ sret.data[1].rank > sret.data[2].rank
    /\ TierOf(sret.data[1], sret.query) < TierOf(sret.data[2], sret.query)

(* the record's symbol is the query, letter case set aside; the record's   *)
(* name merely contains the query                                          *)
SymbolIs(crypto, q) == toLowerCase(symbol(crypto)) = toLowerCase(q)
NameMerelyContains(crypto, q) ==
    /\ TierOf(crypto, q) = 4
    /\ includes(toLowerCase(name(crypto)), toLowerCase(q))

(* the record av[i] is in the list, ahead of every record of the list whose *)
(* name merely contains q                                                   *)
ReturnedAhead(data, av, i, q) ==
    \E p \in 1..Len(data) :
       /\ data[p] = av[i]
       /\ \A m \in 1..Len(data) : NameMerelyContains(data[m], q) => p < m

(* C16 as stated: whenever the snapshot holds a record whose symbol equals *)
(* the query case-insensitively, search(query) returns that record, ahead  *)
(* of every record that merely contains the query in its name.             *)
C16_SymbolMatchReturnedFirst ==
    sret.kind # "none" =>
       \A i \in 1..Len(availableCryptos) :
          SymbolIs(availableCryptos[i], sret.query) =>
              ReturnedAhead(sret.data, availableCryptos, i, sret.query)

(* C16 amended: the same, for a query of at least 2 characters whose key   *)
(* has no unexpired entry in the search cache, and unless as many records  *)
(* as a result holds (20) precede the record in the snapshot and equal the *)
(* query themselves.                                                       *)
C16_SymbolMatchReturnedFirstWhenRanked ==
    [][\A q \in Queries :
          (SearchedFor(q) /\ Len(q) >= 2 /\ ~Unexpired(Normalized(q))) =>
              \A i \in 1..Len(availableCryptos) :
                 SymbolIs(availableCryptos[i], q) =>
                    \/ ReturnedAhead(sret'.data, availableCryptos, i, q)
                    \/ Cardinality({j \in 1..(i - 1) :
                                      TierOf(availableCryptos[j], q) = 1}) >= MaxResults
      ]_vars

(* C16 witness: the record whose symbol is the query is returned first, a  *)
(* record that precedes it in the snapshot and merely contains the query   *)
(* after it                                                                *)
C16_Witness ==
    /\ sret.kind = "local"
    /\ Len(sret.data) >= 2
    /\ SymbolIs(sret.data[1], sret.query)
    /\ NameMerelyContains(sret.data[2], sret.query)
    /\ sret.data[2].rank < sret.data[1].rank

(* C17: when ranking the snapshot yields at least one record, search       *)
(* stores that list under the trimmed, lowercased query and returns it; it *)
(* sends no request and leaves the last-call timestamp as it was.          *)
C17_LocalResultsCachedAndReturned ==
    [][\A q \in Queries :
          (/\ SearchedFor(q) /\ Len(q) >= 2 /\ ~Unexpired(Normalized(q))
           /\ Len(localResults(availableCryptos, q)) >= 1) =>
              /\ sret'.data = localResults(availableCryptos, q)
              /\ searchCache' = [searchCache EXCEPT ![Normalized(q)] =
                                    [has |-> TRUE, data |-> sret'.data, age |-> 0]]
              /\ lastApiCallAge' = lastApiCallAge
              /\ searches' = searches
      ]_vars

(* C17 witness: a list ranked for a query typed with a leading blank has   *)
(* been returned and sits in the cache under the trimmed key               *)
C17_Witness ==
    /\ sret.kind = "local"
    /\ Len(sret.data) >= 1
    /\ Normalized(sret.query) # toLowerCase(sret.query)
    /\ searchCache[Normalized(sret.query)] =
          [has |-> TRUE, data |-> sret.data, age |-> 0]

(* C18: whenever ranking the snapshot yields nothing, the query has at     *)
(* least 3 characters and the interval since the last remote call has      *)
(* elapsed, search calls the remote search endpoint; the market request    *)
(* that follows asks for at most the first 10 hits.                        *)
C18_RemoteSearchWhenNothingLocal ==
    [][/\ \A q \in Queries :
            (/\ SearchedFor(q) /\ ~Unexpired(Normalized(q))
             /\ Len(Normalized(q)) >= 3
             /\ localResults(availableCryptos, q) = <<>>
             /\ lastApiCallAge >= 9) =>
                \E x \in Searchers : searches'[x].pc = "search"
       /\ \A x \in Searchers :
             (searches[x].pc = "search" /\ searches'[x].pc = "marketDelay") =>
                 /\ Len(searches'[x].coinIds) <= MaxRemoteHits
                 /\ searches'[x].coinIds =
                       Prefix(UpstreamSearch(searches[x].query), MaxRemoteHits)
      ]_vars

(* the ids of the records of a list *)
IdsOf(list) == {list[i].id : i \in 1..Len(list)}

(* C19: when the remote path completes, the returned list holds the local  *)
(* results and the remote market records, each id once, largest market cap *)
(* first, cut to the maximum (20), and exactly this list is stored in the  *)
(* search cache under the trimmed, lowercased query.                       *)
C19_CombinedResultsMergedSortedCached ==
    [][\A x \in Searchers :
          (searches[x].pc = "markets" /\ sret'.kind = "combined") =>
             LET data == sret'.data
                 all  == IdsOf(searches[x].localResults)
                            \cup IdsOf(UpstreamMarkets(searches[x].coinIds))
             IN  /\ IdsOf(data) \subseteq all
                 /\ Len(data) = Min(Cardinality(all), MaxResults)
                 /\ \A i, j \in 1..Len(data) :
                       i < j => /\ data[i].id # data[j].id
                                /\ marketCap(data[i]) >= marketCap(data[j])
                 /\ \A id \in all \ IdsOf(data) : \A i \in 1..Len(data) :
                       UpstreamMarketCap(id) <= marketCap(data[i])
                 /\ searchCache' = [searchCache EXCEPT ![Normalized(searches[x].query)] =
                                       [has |-> TRUE, data |-> data, age |-> 0]]
      ]_vars

(* C19 witness: two remote records have been merged, returned and cached   *)
(* under the trimmed key of a query typed with a trailing blank            *)
C19_Witness ==
    /\ sret.kind = "combined"
    /\ Len(sret.data) >= 2
    /\ Normalized(sret.query) # toLowerCase(sret.query)
    /\ searchCache[Normalized(sret.query)].data = sret.data

(* C20: search never throws: when the remote search or the market request  *)
(* that follows is refused by the rate limit, times out or fails, search   *)
(* returns the local results it had (possibly none).                       *)
C20_SearchNeverThrows ==
    [][/\ sret'.kind # "error"
       /\ \A x \in Searchers :
             (searches[x].pc \in {"search", "markets"} /\ searches'[x].pc = "idle") =>
                 /\ sret'.kind \in {"noHits", "combined", "apiError"}
                 /\ sret'.kind # "combined" => sret'.data = searches[x].localResults
       /\ \A q \in Queries :
             (SearchedFor(q) /\ sret'.kind = "rateLimited") =>
                 sret'.data = localResults(availableCryptos, q)
      ]_vars

(* C20 witness: the market request of a search has failed and the search   *)
(* has returned its (empty) local results                                  *)
C20_Witness ==
    /\ sret.kind = "apiError"
    /\ sret.data = <<>>
    /\ searchCache[Normalized(sret.query)].has

(* C21: search looks the cache up under the trimmed, lowercased query, and *)
(* whenever that key has an entry younger than the search TTL (600 s) it   *)
(* returns exactly that entry, ranking nothing and sending nothing, also   *)
(* when the listing snapshot has been replaced since the entry was written.*)
C21_UnexpiredEntryReturnedAsIs ==
    [][\A q \in Queries :
          (SearchedFor(q) /\ Unexpired(Normalized(q))) =>
              /\ sret'.kind # "none"
              /\ sret'.data = searchCache[Normalized(q)].data
              /\ searchCache' = searchCache
              /\ lastApiCallAge' = lastApiCallAge
              /\ searches' = searches
      ]_vars

(* C21 witness: a search has returned the entry of its key, which is what  *)
(* ranking gave on a shorter snapshot and not what it gives on the present *)
(* one                                                                     *)
C21_Witness ==
    /\ sret.kind = "cached"
    /\ Normalized(sret.query) = sret.query
    /\ Len(sret.query) >= 2
    /\ sret.data # localResults(availableCryptos, sret.query)
    /\ \E n \in 1..(Len(availableCryptos) - 1) :
          sret.data = localResults(Prefix(availableCryptos, n), sret.query)

(* C29: a call served from the cache (fresh, or stale behind the rate      *)
(* limit or after the retries) returns the first min(limit, cached size)   *)
(* records whatever limit filled the cache: within the TTL a call with a   *)
(* limit above the cached size returns fewer than limit records and starts *)
(* no fetch.                                                               *)
C29_CacheServedPrefixWhateverLimitFilledIt ==
    [][/\ \A lim \in Limits :
             (InvokedWith(lim) /\ CacheFresh) =>
                 /\ ret'.kind = "cacheHit"
                 /\ ret'.data = Prefix(mainDataCache.data, lim)
                 /\ Len(mainDataCache.data) < lim => Len(ret'.data) < lim
                 /\ calls' = calls
                 /\ lastApiCallAge' = lastApiCallAge
                 /\ mainDataCache' = mainDataCache
       /\ ret'.kind \in {"rateLimited", "fallback"} =>
             /\ ret'.data = Prefix(mainDataCache.data, ret'.limit)
             /\ mainDataCache' = mainDataCache
      ]_vars

(* C29 witness: a call has been served fewer records than its limit from   *)
(* the fresh cache, which a call with a smaller limit filled               *)
C29_Witness ==
    /\ ret.kind = "cacheHit"
    /\ Len(ret.data) < ret.limit
    /\ ret.data = mainDataCache.data
    /\ mainDataCache.age < MAIN_CACHE_DURATION
    /\ Len(ret.data) >= 1

(* C28: search is a function of the normalized key.  Two raw queries that  *)
(* trim and lowercase to the same key get the same result from the same    *)
(* state: when one of them is answered by ranking the snapshot, the answer *)
(* is the ranking of every other raw query of that key which the snapshot  *)
(* can answer.  And every entry the cache holds under a key k that the     *)
(* snapshot can answer is the answer to k itself.                          *)
C28_ResultDependsOnKeyOnly ==
    [][/\ \A q, q2 \in Queries :
             (/\ SearchedFor(q)
              /\ sret'.kind = "local"
              /\ Normalized(q2) = Normalized(q)
              /\ Len(q2) >= MinQueryLength
              /\ localResults(availableCryptos, q2) # <<>>)
             => sret'.data = localResults(availableCryptos, q2)
       /\ \A k \in Keys :
             (/\ searchCache'[k].has
              /\ Len(k) >= MinQueryLength
              /\ localResults(availableCryptos, k) # <<>>)
             => searchCache'[k].data = localResults(availableCryptos, k)
      ]_vars

(* a call of fetchMissingFavorites with favoriteIds F was made in the step *)
FavCalled(F) ==
    /\ favCount' = favCount + 1
    /\ \/ fret'.kind # "none" /\ fret'.favoriteIds = F
       \/ \E y \in FavCallers :
             favCalls[y].pc = "idle" /\ favCalls'[y].pc = "req"
             /\ favCalls'[y].favoriteIds = F
InSnapshot(id) == \E i \in 1..Len(loadedCryptos) : loadedCryptos[i].id = id
MissingOf(F) == SelectSeq(F, LAMBDA id : ~InSnapshot(id))

(* C22: when every id of favoriteIds is in the snapshot,                   *)
(* fetchMissingFavorites returns [] at once: no request is issued and the  *)
(* last-call timestamp stays as it is.                                     *)
C22_NothingMissingNothingFetched ==
    [][\A F \in FavoriteLists :
          (FavCalled(F) /\ \A i \in 1..Len(F) : InSnapshot(F[i])) =>
              /\ fret'.kind # "none"
              /\ fret'.data = <<>>
              /\ favCalls' = favCalls
              /\ lastApiCallAge' = lastApiCallAge
      ]_vars

(* C22 witness: a call with favorites, all of them loaded, has returned    *)
(* while the interval since the last call had elapsed                      *)
C22_Witness ==
    /\ fret.kind = "noneMissing"
    /\ Len(fret.favoriteIds) >= 2
    /\ lastApiCallAge = API_RATE_LIMIT

(* C23: with a favorite missing from the snapshot and the interval since   *)
(* the last call elapsed, fetchMissingFavorites issues one request, for    *)
(* the first 50 (here idsPerBatch) missing ids at most, and returns        *)
(* exactly the records of the requested ids the upstream knows: an unknown *)
(* id is dropped without error, a lone unknown id yields [].               *)
C23_OneBatchOfMissingIds ==
    [][/\ \A F \in FavoriteLists :
             (FavCalled(F) /\ MissingOf(F) # <<>> /\ lastApiCallAge >= 6) =>
                 /\ fret'.kind = "none"
                 /\ lastApiCallAge' = 0
                 /\ \E y \in FavCallers :
                       /\ favCalls[y].pc = "idle"
                       /\ favCalls'[y].pc = "req"
                       /\ favCalls'[y].idsToFetch = Prefix(MissingOf(F), idsPerBatch)
                       /\ \A z \in FavCallers \ {y} : favCalls'[z] = favCalls[z]
       /\ \A y \in FavCallers :
             (favCalls[y].pc = "req" /\ fret'.kind = "fetched"
              /\ favCalls'[y].pc = "idle") =>
                 /\ IdsOf(fret'.data)
                      = {favCalls[y].idsToFetch[i] :
                            i \in 1..Len(favCalls[y].idsToFetch)} \cap 1..UpstreamTotal
                 /\ Len(fret'.data) = Cardinality(IdsOf(fret'.data))
                 /\ lastApiCallAge' = lastApiCallAge
                 /\ \A z \in FavCallers \ {y} : favCalls'[z] = favCalls[z]
      ]_vars

(* C23 witness: a call with more missing ids than a batch holds has        *)
(* returned fewer records than it requested, an unknown id being dropped   *)
C23_Witness ==
    /\ fret.kind = "fetched"
    /\ Len(MissingOf(fret.favoriteIds)) > idsPerBatch
    /\ Len(fret.data) >= 1
    /\ Len(fret.data) < idsPerBatch
    /\ \E i \in 1..idsPerBatch : MissingOf(fret.favoriteIds)[i] = 0

(* C24: inside the minimum interval since the last network call,           *)
(* fetchMissingFavorites returns [] at once: it neither waits nor issues a *)
(* request nor stamps the last call; and a failing request makes it return *)
(* [], never throw.                                                        *)
C24_RateLimitedReturnsEmptyNeverThrows ==
    [][/\ \A F \in FavoriteLists :
             (FavCalled(F) /\ MissingOf(F) # <<>> /\ lastApiCallAge < 6) =>
                 /\ fret'.kind # "none"
                 /\ fret'.data = <<>>
                 /\ favCalls' = favCalls
                 /\ lastApiCallAge' = lastApiCallAge
       /\ fret'.kind # "error"
       /\ \A y \in FavCallers :
             (favCalls[y].pc = "req" /\ favCalls'[y].pc = "idle") =>
                 /\ fret'.kind \in {"fetched", "failed"}
                 /\ fret'.kind = "failed" => fret'.data = <<>>
      ]_vars

(* C24 witness: a call with a missing favorite has been turned away inside *)
(* the interval while another call's request is in flight                  *)
C24_Witness ==
    /\ fret.kind = "rateLimited"
    /\ MissingOf(fret.favoriteIds) # <<>>
    /\ lastApiCallAge < API_RATE_LIMIT
    /\ \E y \in FavCallers : favCalls[y].pc = "req"

(* C25: fetchMissingFavorites is idempotent: called again with the same    *)
(* favoriteIds on the same snapshot, the upstream unchanged, it returns    *)
(* the same records.                                                       *)
C25_SameCallSameRecords ==
    [][(/\ fret.kind # "none"
        /\ fret'.kind # "none"
        /\ fret'.favoriteIds = fret.favoriteIds
        /\ loadedCryptos' = loadedCryptos)
       => fret'.data = fret.data
      ]_vars

(* C26: the UI calls search only when the field has stayed unchanged for   *)
(* the whole debounce period (800 ms), and only with the field's latest    *)
(* value: every change of the field, clearing it included, cancels the     *)
(* pending timeout, so that no superseded or cleared query is searched.    *)
C26_SearchOnlyForSettledLatestInput ==
    [][/\ \A q \in Queries :
             SearchedFor(q) =>
                 /\ debounceTimer.pending
                 /\ debounceTimer.left = 0
                 /\ q = searchQuery
       /\ (searchQuery' # searchQuery /\ debounceTimer.pending) =>
             (debounceTimer'.pending =>
                 /\ debounceTimer'.query = searchQuery'
                 /\ debounceTimer'.left = 800)
      ]_vars

(* C30: the results the UI holds belong to the query submitted last: once  *)
(* the response to the latest performSearch is in the state, the response  *)
(* to an earlier, overlapping performSearch does not replace it.           *)
C30_LatestQueryKeepsItsResults ==
    [][(/\ resultsFor = submitted
        /\ submitted' = submitted
        /\ searchQuery' = searchQuery)
       => /\ resultsFor' = resultsFor
          /\ searchResults' = searchResults
      ]_vars

(* C27: loadFavorites returns the list that saveFavorites was called with  *)
(* last, whatever the list (the empty one included), whether init() had    *)
(* run before the save or not, and whichever persistent backends took the  *)
(* write.                                                                  *)
C27_LoadReturnsLastSaved ==
    [][(lret'.kind = "loaded" /\ lastSaved.has)
       => lret'.data = lastSaved.favorites
      ]_vars

====
